---- MODULE Spec2Model ----
(***************************************************************************)
(* Spatially partitioned bottleneck block                                  *)
(* (apex/contrib/bottleneck/bottleneck.py).                                *)
(*                                                                         *)
(* A world of spatial_group_size * num_groups workers, every worker        *)
(* holding one SpatialBottleneck module and a slice of Hs rows.  A tensor   *)
(* (N, Hs, W, C) is modelled as a sequence of Hs rows, a row being one     *)
(* value (N = W = C = 1), so the 3x3 convolution is a function of a row    *)
(* and its two vertical neighbours.  Each worker has two device streams,   *)
(* the current (compute) stream and stream1 (exchange); the host issues    *)
(* the kernels of forward in program order and the streams run them in     *)
(* issue order, subject to the wait_stream dependencies.                   *)
(***************************************************************************)
EXTENDS Integers, Sequences, FiniteSets

(* ------------------------------ bounds -------------------------------- *)

MaxGroupSize == 3
MaxGroups == 2
MaxHs == 2
MaxRows == 6
MaxShapeRows == 4

\* A row holds 0 or 1; a row of torch.empty memory holds no value yet.
Vals == {0, 1}
Unset == 0 - 1

VARIABLES
  cfg,            \* constructor arguments (G, groups, dilation, norm_func, downsample),
                  \* the world (NG * G + extra ranks) and the input shapes (Hs, wide)
  error,          \* what SpatialBottleneck.__init__ raised, or "none"
  new_groups,     \* dist.new_group calls the constructor made
  local_rank,     \* self.local_rank
  communicator,   \* self.communicator: the ranks of the group built for the worker
  stream1,        \* self.stream1 exists
  pc,             \* "idle", "fwd" (forward issued), "raised", "bwd" (backward returned)
  cstream, xstream,   \* kernels issued on the current stream and on stream1
  cpos, xpos,         \* kernels each stream has completed
  inflight,       \* stream1 has entered the all_gather and waits for its completion
  gather_ranks,   \* the process group the worker's last dist.all_gather ran over
  ncoll,          \* collective calls issued
  x, out1, out2, out3, padded_out1, send_halos, all_halos, top_out2, btm_out2,
  saved,          \* ctx.save_for_backward, as tensor names
  grad_o, bwd_outputs, grad_out2, grad_halo, grads,
  bwd_reads       \* what backward read at saved_tensors[6], [10] and [11]

moduleVars == <<cfg, error, new_groups, local_rank, communicator, stream1>>
streamVars == <<cstream, xstream, cpos, xpos>>
collVars == <<inflight, gather_ranks, ncoll>>
tensorVars == <<x, out1, out2, out3, padded_out1, send_halos, all_halos, top_out2, btm_out2>>
bwdVars == <<grad_o, bwd_outputs, grad_out2, grad_halo, grads, bwd_reads>>
vars == <<moduleVars, pc, streamVars, collVars, tensorVars, saved, bwdVars>>

(* --------------------------- module set-up ---------------------------- *)

\* dist.get_world_size(): NG whole groups of G ranks and extra ranks beside them.
WorldSize(c) == c.G * c.NG + c.extra
Workers == 0 .. (WorldSize(cfg) - 1)

\* Values of the constructor arguments groups, dilation and norm_func.
GroupsArgs == {1, 2}
Dilations == {1, 2}
NormFuncs == {"None", "BatchNorm2d"}

AllConfigs ==
  { c \in [G : 1 .. MaxGroupSize, NG : 0 .. MaxGroups, extra : 0 .. (MaxGroupSize - 1),
            Hs : 1 .. MaxHs, downsample : BOOLEAN, groups : GroupsArgs,
            dilation : Dilations, norm_func : NormFuncs, wide : {{}}] :
      c.extra < c.G /\ WorldSize(c) >= 1 }

\* The arguments and worlds the constructor accepts.
Valid(c) ==
  /\ c.groups = 1 /\ c.dilation = 1 /\ c.norm_func = "None"
  /\ c.G > 1 => (WorldSize(c) \div c.G) * c.G = WorldSize(c)

Configs == { c \in AllConfigs : Valid(c) /\ c.NG >= 1 /\ c.G * c.NG * c.Hs <= MaxRows }
BadConfigs == { c \in AllConfigs : ~Valid(c) }

\* Worlds in which at most one rank is handed an input wider than the others'.
ShapeConfigs ==
  UNION { { [c EXCEPT !.wide = s] : s \in {{}} \cup { {r} : r \in 0 .. (WorldSize(c) - 1) } } :
            c \in { d \in Configs : d.G * d.NG * d.Hs <= MaxShapeRows } }

\* W of the tensors of a worker: x, out1 and its halo buffers.
Width(w) == IF w \in cfg.wide THEN 2 ELSE 1

LocalRank(rank, g) == rank % g

GroupRanks(group, g) == (group * g) .. ((group + 1) * g - 1)

\* The communicator the constructor keeps: the new_group holding the rank.
Communicator(rank, g, ws) ==
  IF g > 1
  THEN LET num_groups == ws \div g
       IN  UNION { IF rank \in GroupRanks(group, g) THEN GroupRanks(group, g) ELSE {} :
                     group \in 0 .. (num_groups - 1) }
  ELSE {}

\* Construct without the dilation check.
Construct_NoDilationCheck(c, rank) ==
  LET ws == WorldSize(c)
      num_groups == ws \div c.G
      raise(e) == [error |-> e, new_groups |-> 0, local_rank |-> 0,
                   communicator |-> {}, stream1 |-> FALSE]
  IN  IF c.groups # 1 THEN raise("RuntimeError")
      ELSE IF c.norm_func # "None" THEN raise("RuntimeError")
      ELSE IF c.G > 1
      THEN IF num_groups * c.G # ws THEN raise("AssertionError")
           ELSE [error |-> "none", new_groups |-> num_groups,
                 local_rank |-> LocalRank(rank, c.G),
                 communicator |-> Communicator(rank, c.G, ws), stream1 |-> TRUE]
      ELSE [error |-> "none", new_groups |-> 0, local_rank |-> 0,
            communicator |-> {}, stream1 |-> FALSE]

\* SpatialBottleneck.__init__ on one rank, in the order of the code: the
\* checks of groups, dilation and norm_func, then for spatial_group_size > 1
\* the divisibility assert, the new_group calls and the stream.
Construct(c, rank) ==
  LET ws == WorldSize(c)
      num_groups == ws \div c.G
      raise(e) == [error |-> e, new_groups |-> 0, local_rank |-> 0,
                   communicator |-> {}, stream1 |-> FALSE]
  IN  IF c.groups # 1 THEN raise("RuntimeError")
      ELSE IF c.dilation # 1 THEN raise("RuntimeError")
      ELSE IF c.norm_func # "None" THEN raise("RuntimeError")
      ELSE IF c.G > 1
      THEN IF num_groups * c.G # ws THEN raise("AssertionError")
           ELSE [error |-> "none", new_groups |-> num_groups,
                 local_rank |-> LocalRank(rank, c.G),
                 communicator |-> Communicator(rank, c.G, ws), stream1 |-> TRUE]
      ELSE [error |-> "none", new_groups |-> 0, local_rank |-> 0,
            communicator |-> {}, stream1 |-> FALSE]

\* dist.all_gather without a group argument runs over the default group.
DefaultGroup(ws) == 0 .. (ws - 1)
AllGatherGroup(comm, ws) == DefaultGroup(ws)

(* ------------------------------ kernels ------------------------------- *)

\* FrozenBatchNorm2d as constructed: weight 1, bias 0, mean 0, var 1.
Scale == 1
Bias == 0
\* conv1, conv2 (top, centre, bottom tap), conv3, downsample conv.
w_conv == <<1, <<1, 2, 3>>, 2, 3>>

Relu(v) == IF v > 0 THEN v ELSE 0
ReluMask(v) == IF v > 0 THEN 1 ELSE 0

Stage1Row(a) == Relu(w_conv[1] * a * Scale + Bias)
Conv2Row(a, b, c) ==
  Relu((w_conv[2][1] * a + w_conv[2][2] * b + w_conv[2][3] * c) * Scale + Bias)
Identity(a, ds) == IF ds THEN w_conv[4] * a * Scale + Bias ELSE a
Stage3Row(o2, a, ds) == Relu(w_conv[3] * o2 * Scale + Bias + Identity(a, ds))

ZeroPad(t) == <<0>> \o t \o <<0>>
Empty(n) == [i \in 1 .. n |-> Unset]

\* forward_out1, forward_out2 and forward_rest on a whole (local) tensor.
ForwardOut1(t) == [r \in 1 .. Len(t) |-> Stage1Row(t[r])]
ForwardOut2(o1) ==
  LET p == ZeroPad(o1) IN [r \in 1 .. Len(o1) |-> Conv2Row(p[r], p[r + 1], p[r + 2])]
ForwardRest(o2, t, ds) == [r \in 1 .. Len(t) |-> Stage3Row(o2[r], t[r], ds)]

\* What a kernel may read from a row: its value, or anything when never written.
Reads(v) == IF v = Unset THEN Vals ELSE {v}
\* forward_out2_halo on three rows: one output row.
ForwardOut2Halo(slab) ==
  { Conv2Row(a, b, c) : a \in Reads(slab[1]), b \in Reads(slab[2]), c \in Reads(slab[3]) }

(* ------------------------- forward: issue order ----------------------- *)

\* A kernel and the number of kernels of the other stream it waits for.
Op(name, after) == [name |-> name, after |-> after]
Ops(names, after) == [i \in 1 .. Len(names) |-> Op(names[i], after)]

\* Current-stream kernels issued before stream1.wait_stream(current_stream).
ComputeHead(g) ==
  Ops(<<"forward_out1", "forward_out2">> \o (IF g > 1 THEN <<"pad_copy">> ELSE <<>>), 0)

\* ExchangeOps without stream1.wait_stream(torch.cuda.current_stream()).
ExchangeOps_NoWait(g, lr) ==
  IF g > 1 THEN Ops(<<"send_copy", "all_gather", "top_halo", "btm_halo">>, 0) ELSE <<>>

\* Kernels issued inside "with torch.cuda.stream(stream1)": the two copies into
\* send_halos, the collective, then the top pad row (copy and boundary
\* convolution, or zero_) and the bottom pad row likewise.
ExchangeOps(g, lr) ==
  IF g > 1
  THEN Ops(<<"send_copy", "all_gather", "top_halo", "btm_halo">>, Len(ComputeHead(g)))
  ELSE <<>>

\* ComputeTail without current_stream.wait_stream(stream1).
ComputeTail_NoWait(g, lr) ==
  IF g > 1 THEN Ops(<<"merge", "forward_rest">>, 0) ELSE Ops(<<"forward_rest">>, 0)

\* Current-stream kernels issued after current_stream.wait_stream(stream1):
\* the copies of the boundary rows into out2, then forward_rest.
ComputeTail(g, lr) ==
  IF g > 1
  THEN Ops(<<"merge", "forward_rest">>, Len(ExchangeOps(g, lr)))
  ELSE Ops(<<"forward_rest">>, 0)

ComputeOps(g, lr) == ComputeHead(g) \o ComputeTail(g, lr)

\* The all_gather call fails on the host when the output list does not have
\* one entry per rank of the process group it runs over.
AllGatherRaises(g, ranks) == g > 1 /\ Cardinality(ranks) # g

\* ctx.save_for_backward(*(args+outputs[+[padded_out1]])).
Args(ds) ==
  <<"x", "w1", "w2", "w3", "s1", "s2", "s3", "b1", "b2", "b3">>
    \o (IF ds THEN <<"w4", "s4", "b4">> ELSE <<>>)
Outputs == <<"out1", "out2", "out3">>
\* SavedBundle saving the padded buffer whatever the group size.
SavedBundle_AlwaysPadded(g, ds) == Args(ds) \o Outputs \o <<"padded_out1">>

SavedBundle(g, ds) ==
  IF g > 1 THEN Args(ds) \o Outputs \o <<"padded_out1">> ELSE Args(ds) \o Outputs

(* ------------------------------- Init --------------------------------- *)

\* Every rank has run the constructor; nothing has been issued.
Constructed ==
  /\ error = [w \in Workers |-> Construct(cfg, w).error]
  /\ new_groups = [w \in Workers |-> Construct(cfg, w).new_groups]
  /\ local_rank = [w \in Workers |-> Construct(cfg, w).local_rank]
  /\ communicator = [w \in Workers |-> Construct(cfg, w).communicator]
  /\ stream1 = [w \in Workers |-> Construct(cfg, w).stream1]
  /\ pc = [w \in Workers |-> "idle"]
  /\ cstream = [w \in Workers |-> <<>>]
  /\ xstream = [w \in Workers |-> <<>>]
  /\ cpos = [w \in Workers |-> 0]
  /\ xpos = [w \in Workers |-> 0]
  /\ inflight = [w \in Workers |-> FALSE]
  /\ gather_ranks = [w \in Workers |-> {}]
  /\ ncoll = [w \in Workers |-> 0]
  /\ x = [w \in Workers |-> <<>>]
  /\ out1 = [w \in Workers |-> <<>>]
  /\ out2 = [w \in Workers |-> <<>>]
  /\ out3 = [w \in Workers |-> <<>>]
  /\ padded_out1 = [w \in Workers |-> <<>>]
  /\ send_halos = [w \in Workers |-> <<>>]
  /\ all_halos = [w \in Workers |-> <<>>]
  /\ top_out2 = [w \in Workers |-> Unset]
  /\ btm_out2 = [w \in Workers |-> Unset]
  /\ saved = [w \in Workers |-> <<>>]
  /\ grad_o = [w \in Workers |-> <<>>]
  /\ bwd_outputs = [w \in Workers |-> <<>>]
  /\ grad_out2 = [w \in Workers |-> <<>>]
  /\ grad_halo = [w \in Workers |-> <<>>]
  /\ grads = [w \in Workers |-> <<>>]
  /\ bwd_reads = [w \in Workers |-> <<>>]

\* Ranks given slices of one shape, with arguments the constructor accepts or rejects.
Init == cfg \in (Configs \cup BadConfigs) /\ Constructed

\* Ranks given slices whose widths may differ.
InitShapes == cfg \in ShapeConfigs /\ Constructed

(* ------------------------------ forward ------------------------------- *)

Drained(w) == cpos[w] = Len(cstream[w]) /\ xpos[w] = Len(xstream[w])
ForwardDone(w) == pc[w] = "fwd" /\ Drained(w)

\* SpatialBottleneckFunction.forward on the host: allocate, issue every kernel
\* in program order, save the bundle and return; or raise at the all_gather.
StartForward(w) ==
  /\ pc[w] = "idle"
  /\ error[w] = "none"
  /\ \E t \in [1 .. cfg.Hs -> Vals] :
       LET g == cfg.G
           lr == local_rank[w]
           ranks == AllGatherGroup(communicator[w], WorldSize(cfg))
           raises == AllGatherRaises(g, ranks)
       IN  /\ x' = [x EXCEPT ![w] = t]
           /\ out1' = [out1 EXCEPT ![w] = Empty(cfg.Hs)]
           /\ out2' = [out2 EXCEPT ![w] = Empty(cfg.Hs)]
           /\ out3' = [out3 EXCEPT ![w] = Empty(cfg.Hs)]
           /\ padded_out1' = [padded_out1 EXCEPT ![w] = IF g > 1 THEN Empty(cfg.Hs + 2) ELSE <<>>]
           /\ send_halos' = [send_halos EXCEPT ![w] = IF g > 1 THEN Empty(2) ELSE <<>>]
           /\ all_halos' = [all_halos EXCEPT ![w] = <<>>]
           /\ top_out2' = [top_out2 EXCEPT ![w] = Unset]
           /\ btm_out2' = [btm_out2 EXCEPT ![w] = Unset]
           /\ cpos' = [cpos EXCEPT ![w] = 0]
           /\ xpos' = [xpos EXCEPT ![w] = 0]
           /\ gather_ranks' = [gather_ranks EXCEPT ![w] = IF g > 1 THEN ranks ELSE {}]
           /\ ncoll' = [ncoll EXCEPT ![w] = IF g > 1 THEN @ + 1 ELSE @]
           /\ IF raises
              THEN /\ pc' = [pc EXCEPT ![w] = "raised"]
                   /\ cstream' = [cstream EXCEPT ![w] = ComputeHead(g)]
                   /\ xstream' = [xstream EXCEPT ![w] = SubSeq(ExchangeOps(g, lr), 1, 1)]
                   /\ saved' = [saved EXCEPT ![w] = <<>>]
              ELSE /\ pc' = [pc EXCEPT ![w] = "fwd"]
                   /\ cstream' = [cstream EXCEPT ![w] = ComputeOps(g, lr)]
                   /\ xstream' = [xstream EXCEPT ![w] = ExchangeOps(g, lr)]
                   /\ saved' = [saved EXCEPT ![w] = SavedBundle(g, cfg.downsample)]
  /\ UNCHANGED <<moduleVars, inflight, bwdVars>>

NextCompute(w) == cstream[w][cpos[w] + 1]
NextExchange(w) == xstream[w][xpos[w] + 1]

ComputeReady(w) ==
  /\ pc[w] = "fwd"
  /\ cpos[w] < Len(cstream[w])
  /\ xpos[w] >= NextCompute(w).after

ExchangeReady(w) ==
  /\ pc[w] = "fwd"
  /\ xpos[w] < Len(xstream[w])
  /\ cpos[w] >= NextExchange(w).after

\* out2 after the boundary rows are copied over it.
Merge(o2, top, btm, g, lr) ==
  LET m == IF lr > 0 THEN [o2 EXCEPT ![1] = top] ELSE o2
  IN  IF lr < g - 1 THEN [m EXCEPT ![Len(o2)] = btm] ELSE m

\* One kernel of the current stream.
ComputeStep(w) ==
  /\ ComputeReady(w)
  /\ LET op == NextCompute(w).name
         Hs == cfg.Hs
     IN  /\ out1' = [out1 EXCEPT ![w] = IF op = "forward_out1" THEN ForwardOut1(x[w]) ELSE @]
         /\ out2' = [out2 EXCEPT ![w] =
                       CASE op = "forward_out2" -> ForwardOut2(out1[w])
                         [] op = "merge" -> Merge(@, top_out2[w], btm_out2[w], cfg.G, local_rank[w])
                         [] OTHER -> @]
         /\ padded_out1' = [padded_out1 EXCEPT ![w] =
                       IF op = "pad_copy"
                       THEN [i \in 1 .. Hs + 2 |-> IF i \in 2 .. Hs + 1 THEN out1[w][i - 1] ELSE @[i]]
                       ELSE @]
         /\ out3' = [out3 EXCEPT ![w] =
                       IF op = "forward_rest"
                       THEN ForwardRest(out2[w], x[w], cfg.downsample)
                       ELSE @]
  /\ cpos' = [cpos EXCEPT ![w] = @ + 1]
  /\ UNCHANGED <<moduleVars, pc, cstream, xstream, xpos, collVars, x,
                 send_halos, all_halos, top_out2, btm_out2, saved, bwdVars>>

\* TopHalo taking the first row of the previous rank's send buffer.
TopHalo_FirstRow(halos, lr) == halos[lr][1]

\* The row of the gathered halos a pad row is filled from.
TopHalo(halos, lr) == halos[lr][2]
BtmHalo(halos, lr) == halos[lr + 2][1]

\* padded_out1 after the top pad row, and after the bottom pad row, is written.
TopPad(p, halos, lr) == [p EXCEPT ![1] = IF lr > 0 THEN TopHalo(halos, lr) ELSE 0]
BtmPad(p, halos, g, lr) ==
  [p EXCEPT ![Len(p)] = IF lr < g - 1 THEN BtmHalo(halos, lr) ELSE 0]

\* The rows of the padded buffer each boundary convolution is handed.
FatTopHalo(p) == SubSeq(p, 1, 3)
FatBtmHalo(p) == SubSeq(p, Len(p) - 2, Len(p))

\* One kernel group of stream1 other than the collective.
ExchangeStep(w) ==
  /\ ExchangeReady(w)
  /\ NextExchange(w).name # "all_gather"
  /\ LET op == NextExchange(w).name
         Hs == cfg.Hs
         g == cfg.G
         lr == local_rank[w]
         ptop == TopPad(padded_out1[w], all_halos[w], lr)
         pbtm == BtmPad(padded_out1[w], all_halos[w], g, lr)
     IN  /\ send_halos' = [send_halos EXCEPT ![w] =
                       IF op = "send_copy" THEN <<out1[w][1], out1[w][Hs]>> ELSE @]
         /\ padded_out1' = [padded_out1 EXCEPT ![w] =
                       CASE op = "top_halo" -> ptop
                         [] op = "btm_halo" -> pbtm
                         [] OTHER -> @]
         /\ IF op = "top_halo" /\ lr > 0
            THEN \E v \in ForwardOut2Halo(FatTopHalo(ptop)) :
                   top_out2' = [top_out2 EXCEPT ![w] = v]
            ELSE UNCHANGED top_out2
         /\ IF op = "btm_halo" /\ lr < g - 1
            THEN \E v \in ForwardOut2Halo(FatBtmHalo(pbtm)) :
                   btm_out2' = [btm_out2 EXCEPT ![w] = v]
            ELSE UNCHANGED btm_out2
  /\ xpos' = [xpos EXCEPT ![w] = @ + 1]
  /\ UNCHANGED <<moduleVars, pc, cstream, xstream, cpos, collVars, x, out1, out2, out3,
                 all_halos, saved, bwdVars>>

\* stream1 reaches dist.all_gather: the worker enters the collective.
AllGatherEnter(w) ==
  /\ ExchangeReady(w)
  /\ NextExchange(w).name = "all_gather"
  /\ ~inflight[w]
  /\ inflight' = [inflight EXCEPT ![w] = TRUE]
  /\ UNCHANGED <<moduleVars, pc, streamVars, gather_ranks, ncoll, tensorVars, saved, bwdVars>>

\* What a rank finds in its output list: the buffer of every rank that sent
\* the shape it expects, and no defined value where the sizes disagree.
Received(w, first, gathered) ==
  [i \in 1 .. Len(gathered) |->
     IF Width(first + i - 1) = Width(w) THEN gathered[i] ELSE Empty(2)]

\* The collective completes once every rank of its process group has entered:
\* every member receives the send buffers in rank order.
AllGatherComplete(ranks) ==
  /\ ranks # {}
  /\ \A w \in ranks : inflight[w] /\ gather_ranks[w] = ranks
  /\ LET first == CHOOSE r \in ranks : \A q \in ranks : r <= q
         gathered == [i \in 1 .. Cardinality(ranks) |-> send_halos[first + i - 1]]
     IN  all_halos' = [w \in Workers |->
                         IF w \in ranks THEN Received(w, first, gathered) ELSE all_halos[w]]
  /\ inflight' = [w \in Workers |-> IF w \in ranks THEN FALSE ELSE inflight[w]]
  /\ xpos' = [w \in Workers |-> IF w \in ranks THEN xpos[w] + 1 ELSE xpos[w]]
  /\ UNCHANGED <<moduleVars, pc, cstream, xstream, cpos, gather_ranks, ncoll, x, out1, out2,
                 out3, padded_out1, send_halos, top_out2, btm_out2, saved, bwdVars>>

(* ------------------------------ backward ------------------------------ *)

RECURSIVE SumSeq(_)
SumSeq(s) == IF s = <<>> THEN 0 ELSE Head(s) + SumSeq(Tail(s))
Dot(a, b) == SumSeq([i \in 1 .. Len(a) |-> a[i] * b[i]])

\* drelu_dscale1 and drelu_dscale2: (g1, g2).
DreluDscale1(go, output, scale1) ==
  LET dx_relu == [r \in 1 .. Len(go) |-> ReluMask(output[r]) * go[r]]
  IN  <<[r \in 1 .. Len(go) |-> dx_relu[r] * scale1], dx_relu>>
DreluDscale2(go, output, scale1, scale2) ==
  LET dx_relu == [r \in 1 .. Len(go) |-> ReluMask(output[r]) * go[r]]
  IN  <<[r \in 1 .. Len(go) |-> dx_relu[r] * scale1],
        [r \in 1 .. Len(go) |-> dx_relu[r] * scale2]>>

\* backward_grad_out2: through conv3, then the relu and scale of stage 2.
BackwardGradOut2(gc3, o2) ==
  [r \in 1 .. Len(gc3) |-> ReluMask(o2[r]) * w_conv[3] * gc3[r] * Scale]

\* backward_rest on the tensors it is handed: g2p and o1p are the stage-2
\* gradient and the stage-1 output with one row above and one below.
BackwardRest(t, o1p, o2, g2p, gc3, gc4, ds) ==
  LET n == Len(t)
      g2 == SubSeq(g2p, 2, n + 1)
      g1 == [s \in 1 .. n |->
               ReluMask(o1p[s + 1]) * Scale
                 * (w_conv[2][1] * g2p[s + 2] + w_conv[2][2] * g2p[s + 1] + w_conv[2][3] * g2p[s])]
  IN  [dx |-> [s \in 1 .. n |-> w_conv[1] * g1[s] + (IF ds THEN w_conv[4] * gc4[s] ELSE gc4[s])],
       dw1 |-> Dot(g1, t),
       dw2 |-> [j \in 1 .. 3 |-> SumSeq([r \in 1 .. n |-> g2[r] * o1p[r + j - 1]])],
       dw3 |-> Dot(gc3, o2),
       dw4 |-> IF ds THEN Dot(gc4, t) ELSE 0]

\* A saved tensor by its name.
Tensor(w, name) ==
  CASE name = "x" -> x[w]
    [] name = "out1" -> out1[w]
    [] name = "out2" -> out2[w]
    [] name = "out3" -> out3[w]
    [] name = "padded_out1" -> padded_out1[w]
    [] name \in {"s1", "s2", "s3", "s4"} -> Scale
    [] OTHER -> Bias

\* ctx.saved_tensors[i], indexed from 0 as the code indexes it.
SavedAt(sv, i) == sv[i + 1]

\* SavedOutputs taking the last three saved tensors whatever the group size.
SavedOutputs_LastThree(g, sv) == SubSeq(sv, Len(sv) - 2, Len(sv))

\* outputs = ctx.saved_tensors[-4:-1] or ctx.saved_tensors[-3:].
SavedOutputs(g, sv) ==
  IF g > 1 THEN SubSeq(sv, Len(sv) - 3, Len(sv) - 1) ELSE SubSeq(sv, Len(sv) - 2, Len(sv))

\* The rows above and below grad_out2 that backward_rest is given: the code
\* exchanges nothing between backward_grad_out2 and backward_rest.
GradHalo(g, lr) == <<0, 0>>

\* SpatialBottleneckFunction.backward.
Backward(w) ==
  /\ ForwardDone(w)
  /\ \E go \in [1 .. cfg.Hs -> Vals] :
       LET sv == saved[w]
           ds == cfg.downsample
           outputs == SavedOutputs(cfg.G, sv)
           o1 == Tensor(w, outputs[1])
           o2 == Tensor(w, outputs[2])
           o3 == Tensor(w, outputs[3])
           g34 == IF ds
                  THEN DreluDscale2(go, o3, Tensor(w, SavedAt(sv, 6)), Tensor(w, SavedAt(sv, 11)))
                  ELSE DreluDscale1(go, o3, Tensor(w, SavedAt(sv, 6)))
           g2 == BackwardGradOut2(g34[1], o2)
           halo == GradHalo(cfg.G, local_rank[w])
       IN  /\ grad_o' = [grad_o EXCEPT ![w] = go]
           /\ bwd_outputs' = [bwd_outputs EXCEPT ![w] = outputs]
           /\ grad_out2' = [grad_out2 EXCEPT ![w] = g2]
           /\ grad_halo' = [grad_halo EXCEPT ![w] = halo]
           /\ grads' = [grads EXCEPT ![w] =
                          BackwardRest(Tensor(w, SavedAt(sv, 0)), ZeroPad(o1), o2,
                                       <<halo[1]>> \o g2 \o <<halo[2]>>, g34[1], g34[2], ds)]
           /\ bwd_reads' = [bwd_reads EXCEPT ![w] =
                          [scale3 |-> SavedAt(sv, 6),
                           w4 |-> IF ds THEN SavedAt(sv, 10) ELSE "none",
                           scale4 |-> IF ds THEN SavedAt(sv, 11) ELSE "none"]]
  /\ pc' = [pc EXCEPT ![w] = "bwd"]
  /\ UNCHANGED <<moduleVars, streamVars, collVars, tensorVars, saved>>

(* ------------------------- partition groups --------------------------- *)

Groups == 0 .. (cfg.NG - 1)
Members(grp) == (grp * cfg.G) .. ((grp + 1) * cfg.G - 1)
First(grp) == grp * cfg.G
Last(grp) == (grp + 1) * cfg.G - 1

RECURSIVE ConcatRanks(_, _, _)
ConcatRanks(f, lo, hi) == IF lo > hi THEN <<>> ELSE f[lo] \o ConcatRanks(f, lo + 1, hi)
RECURSIVE SumRanks(_, _, _)
SumRanks(f, lo, hi) == IF lo > hi THEN 0 ELSE f[lo] + SumRanks(f, lo + 1, hi)

Returned(w) == ForwardDone(w) \/ pc[w] = "bwd"
ExchangeFinished(w) == pc[w] \in {"fwd", "bwd"} /\ cfg.G > 1 /\ xpos[w] = Len(xstream[w])
Completed(w, name) == \E i \in 1 .. cpos[w] : cstream[w][i].name = name
NoUnset(t) == \A i \in 1 .. Len(t) : t[i] # Unset

\* The groupSize == 1 pipeline on the whole tensor of a group.
WholeX(grp) == ConcatRanks(x, First(grp), Last(grp))
WholeOut1(grp) == ForwardOut1(WholeX(grp))
WholeOut2(grp) == ForwardOut2(WholeOut1(grp))
WholeOut3(grp) == ForwardRest(WholeOut2(grp), WholeX(grp), cfg.downsample)
WholeGrads(grp) ==
  LET go == ConcatRanks(grad_o, First(grp), Last(grp))
      g34 == IF cfg.downsample
             THEN DreluDscale2(go, WholeOut3(grp), Scale, Scale)
             ELSE DreluDscale1(go, WholeOut3(grp), Scale)
      g2 == BackwardGradOut2(g34[1], WholeOut2(grp))
  IN  BackwardRest(WholeX(grp), ZeroPad(WholeOut1(grp)), WholeOut2(grp), ZeroPad(g2),
                   g34[1], g34[2], cfg.downsample)

(* ------------------------------ claims -------------------------------- *)

\* C1: when every worker of a group has finished forward, the workers' stage-2
\* outputs and final outputs, concatenated in rank order, are the rows the
\* groupSize == 1 pipeline gives on the whole tensor.
C1_ForwardPartitionTransparency ==
  \A grp \in Groups :
    (\A w \in Members(grp) : Returned(w)) =>
      /\ ConcatRanks(out2, First(grp), Last(grp)) = WholeOut2(grp)
      /\ ConcatRanks(out3, First(grp), Last(grp)) = WholeOut3(grp)

\* C2: when every worker of a group of more than one worker has returned from
\* backward (after a forward whose outputs are the unpartitioned ones), the
\* input gradients gathered in rank order are the unpartitioned input
\* gradient and the weight gradients summed over the group are the
\* unpartitioned weight gradients.
C2_GradientPartitionTransparency ==
  \A grp \in Groups :
    (/\ cfg.G > 1
     /\ \A w \in Members(grp) : pc[w] = "bwd"
     /\ ConcatRanks(out2, First(grp), Last(grp)) = WholeOut2(grp)) =>
      LET ref == WholeGrads(grp)
          lo == First(grp)
          hi == Last(grp)
      IN  /\ ConcatRanks([w \in Workers |-> IF pc[w] = "bwd" THEN grads[w].dx ELSE <<>>], lo, hi)
               = ref.dx
          /\ SumRanks([w \in Workers |-> IF pc[w] = "bwd" THEN grads[w].dw1 ELSE 0], lo, hi) = ref.dw1
          /\ \A j \in 1 .. 3 :
               SumRanks([w \in Workers |-> IF pc[w] = "bwd" THEN grads[w].dw2[j] ELSE 0], lo, hi)
                 = ref.dw2[j]
          /\ SumRanks([w \in Workers |-> IF pc[w] = "bwd" THEN grads[w].dw3 ELSE 0], lo, hi) = ref.dw3
          /\ SumRanks([w \in Workers |-> IF pc[w] = "bwd" THEN grads[w].dw4 ELSE 0], lo, hi) = ref.dw4

\* C3: once the exchange stream of a worker of a group of more than one worker
\* has finished, rows 1..Hs of its padded buffer are its own stage-1 output,
\* the top pad row is zero on local rank 0 and otherwise the last row of the
\* previous rank's stage-1 output, and the bottom pad row is zero on the last
\* local rank and otherwise the first row of the next rank's stage-1 output.
C3_HaloContents ==
  \A w \in Workers :
    ExchangeFinished(w) =>
      LET Hs == cfg.Hs
          p == padded_out1[w]
      IN  /\ Len(p) = Hs + 2
          /\ SubSeq(p, 2, Hs + 1) = out1[w]
          /\ p[1] = IF local_rank[w] = 0 THEN 0 ELSE out1[w - 1][Hs]
          /\ p[Hs + 2] = IF local_rank[w] = cfg.G - 1 THEN 0 ELSE out1[w + 1][1]

\* C3 witness: an interior rank has finished its exchange and holds a non-zero
\* row of each neighbour while the rank-0 worker's own first row is zero.
C3_Witness ==
  \E w \in Workers :
    /\ ExchangeFinished(w)
    /\ local_rank[w] > 0 /\ local_rank[w] < cfg.G - 1
    /\ padded_out1[w][1] # 0 /\ padded_out1[w][cfg.Hs + 2] # 0
    /\ cfg.Hs > 1 /\ out1[w - 1][1] = 0 /\ out1[w + 1][cfg.Hs] = 0

\* C4: whenever a boundary convolution is the next kernel of the exchange
\* stream, every row of the 3-row slab it is handed has been written.
C4_HaloRowsSetBeforeUse ==
  \A w \in Workers :
    (ExchangeReady(w) /\ NextExchange(w).name \in {"top_halo", "btm_halo"}) =>
      LET lr == local_rank[w]
          op == NextExchange(w).name
      IN  /\ (op = "top_halo" /\ lr > 0) =>
               NoUnset(FatTopHalo(TopPad(padded_out1[w], all_halos[w], lr)))
          /\ (op = "btm_halo" /\ lr < cfg.G - 1) =>
               NoUnset(FatBtmHalo(BtmPad(padded_out1[w], all_halos[w], cfg.G, lr)))

\* C5: in a group of more than one worker, forward_rest is runnable, or has
\* run, only when the interior stage-2 convolution has completed, every kernel
\* of the exchange stream (the boundary convolutions included) has completed
\* and the boundary results have been copied over the first row (local rank
\* > 0) and the last row (local rank < groupSize - 1) of the stage-2 output.
C5_MergeBeforeConsumption ==
  \A w \in Workers :
    (/\ cfg.G > 1
     /\ pc[w] \in {"fwd", "bwd"}
     /\ \/ Completed(w, "forward_rest")
        \/ ComputeReady(w) /\ NextCompute(w).name = "forward_rest") =>
      LET lr == local_rank[w]
          Hs == cfg.Hs
      IN  /\ Completed(w, "forward_out2")
          /\ xpos[w] = Len(xstream[w])
          /\ Completed(w, "merge")
          /\ NoUnset(out2[w])
          /\ lr > 0 => top_out2[w] # Unset
          /\ lr < cfg.G - 1 => (btm_out2[w] # Unset /\ out2[w][Hs] = btm_out2[w])
          /\ (lr > 0 /\ (Hs > 1 \/ lr = cfg.G - 1)) => out2[w][1] = top_out2[w]

\* C5 witness: an interior rank is about to run forward_rest.
C5_Witness ==
  \E w \in Workers :
    /\ cfg.G > 1 /\ local_rank[w] > 0 /\ local_rank[w] < cfg.G - 1 /\ cfg.Hs > 1
    /\ ComputeReady(w) /\ NextCompute(w).name = "forward_rest"
    /\ out2[w][1] # ForwardOut2(out1[w])[1]

\* C6: the exchange stream is not ordered after the interior stage-2
\* convolution: while forward_out2 is the kernel the compute stream is
\* executing, the exchange stream of the same worker is free to run.
C6_ExchangeOverlapsInterior ==
  \A w \in Workers :
    (/\ cfg.G > 1
     /\ pc[w] = "fwd"
     /\ cpos[w] < Len(cstream[w])
     /\ NextCompute(w).name = "forward_out2") => ExchangeReady(w)

\* C7: after backward in a group of more than one worker, the rows of the
\* stage-2 output gradient that backward_rest used above and below the slice
\* are the neighbouring workers' boundary rows of that gradient.
C7_BackwardGradientHalo ==
  \A w \in Workers :
    (cfg.G > 1 /\ pc[w] = "bwd") =>
      /\ (local_rank[w] > 0 /\ pc[w - 1] = "bwd") =>
           grad_halo[w][1] = grad_out2[w - 1][cfg.Hs]
      /\ (local_rank[w] < cfg.G - 1 /\ pc[w + 1] = "bwd") =>
           grad_halo[w][2] = grad_out2[w + 1][1]

\* C8: the all_gather a worker's forward issues runs over exactly the
\* communicator built for the worker's partition group, and what it gathers is
\* one entry per local rank, entry i the send buffer of local rank i.
C8_CollectiveScopedToGroup ==
  \A w \in Workers :
    ncoll[w] > 0 =>
      /\ gather_ranks[w] = communicator[w]
      /\ all_halos[w] # <<>> =>
           /\ Len(all_halos[w]) = cfg.G
           /\ \A i \in 1 .. cfg.G : all_halos[w][i] = send_halos[w - local_rank[w] + i - 1]

\* C9: every worker that has started forward in a group of more than one
\* worker has issued exactly one all_gather, and once every worker of a group
\* has started forward, either all of them have returned or some kernel or
\* the collective of the group can still make progress.
CanStep(w) ==
  \/ ComputeReady(w)
  \/ ExchangeReady(w) /\ (NextExchange(w).name # "all_gather" \/ ~inflight[w])
  \/ inflight[w] /\ \A m \in gather_ranks[w] : inflight[m]
C9_CollectiveProgress ==
  /\ \A w \in Workers : (cfg.G > 1 /\ pc[w] # "idle") => ncoll[w] = 1
  /\ \A grp \in Groups :
       (\A w \in Members(grp) : pc[w] # "idle") =>
         \/ \A w \in Members(grp) : Returned(w)
         \/ \E w \in Members(grp) : CanStep(w)

\* BottleneckFunction: what it saves and the outputs its backward reads.
BottleneckSaved(ds) == Args(ds) \o Outputs
BottleneckOutputs(sv) == SubSeq(sv, Len(sv) - 2, Len(sv))

\* C10: with spatial_group_size == 1 forward issues no collective, no stream
\* wait and nothing on an exchange stream, leaves the stage-2 output as the
\* plain convolution gives it and saves no padded buffer, and backward reads
\* the three outputs BottleneckFunction reads.
C10_GroupSizeOneShortCircuit ==
  \A w \in Workers :
    (cfg.G = 1 /\ pc[w] # "idle") =>
      /\ ncoll[w] = 0 /\ gather_ranks[w] = {} /\ ~inflight[w]
      /\ xstream[w] = <<>>
      /\ \A i \in 1 .. Len(cstream[w]) : cstream[w][i].after = 0
      /\ padded_out1[w] = <<>>
      /\ saved[w] = BottleneckSaved(cfg.downsample)
      /\ Completed(w, "forward_out2") => out2[w] = ForwardOut2(out1[w])
      /\ pc[w] = "bwd" =>
           bwd_outputs[w] = BottleneckOutputs(BottleneckSaved(cfg.downsample))

\* C10 witness: a worker with spatial_group_size == 1 has run forward and
\* backward on a non-zero input.
C10_Witness ==
  \E w \in Workers :
    cfg.G = 1 /\ pc[w] = "bwd" /\ cfg.downsample /\ x[w][1] # 0 /\ out2[w][1] # 0

\* C14: whether or not a downsample branch exists and whatever the group
\* size, backward reads out1, out2 and the final output as its three outputs,
\* scale3 at index 6 and, with a downsample branch, the downsample weight at
\* index 10 and scale4 at index 11, each being what forward saved at that
\* position; the padded buffer, saved last when the group size exceeds one,
\* is never read as an output.
C14_SavedBundleIndexing ==
  \A w \in Workers :
    pc[w] = "bwd" =>
      /\ saved[w] = Args(cfg.downsample) \o Outputs
                      \o (IF cfg.G > 1 THEN <<"padded_out1">> ELSE <<>>)
      /\ bwd_outputs[w] = Outputs
      /\ \A i \in 1 .. Len(bwd_outputs[w]) : bwd_outputs[w][i] # "padded_out1"
      /\ bwd_reads[w].scale3 = "s3"
      /\ bwd_reads[w].w4 = (IF cfg.downsample THEN "w4" ELSE "none")
      /\ bwd_reads[w].scale4 = (IF cfg.downsample THEN "s4" ELSE "none")

\* C14 witness: backward has run on a worker of a group of more than one
\* rank with a downsample branch, the padded buffer being the last saved tensor.
C14_Witness ==
  \E w \in Workers :
    /\ pc[w] = "bwd" /\ cfg.G > 1 /\ cfg.downsample
    /\ saved[w][Len(saved[w])] = "padded_out1"
    /\ bwd_reads[w].scale4 = "s4"

\* The halo exchange of forward run as one sequence on one stream, every
\* rank of the group in step: pad copy, send copies, gather, top pad row and
\* top convolution, bottom pad row and bottom convolution, then the copies
\* into out2.  mem is what the rows of torch.empty memory hold.
SequentialForward(w, mem) ==
  LET g == cfg.G
      lr == local_rank[w]
      first == w - lr
      Hs == cfg.Hs
      o1 == ForwardOut1(x[w])
      p0 == <<mem>> \o o1 \o <<mem>>
      halos == [i \in 1 .. g |->
                  <<ForwardOut1(x[first + i - 1])[1], ForwardOut1(x[first + i - 1])[Hs]>>]
      ptop == TopPad(p0, halos, lr)
      top == IF lr > 0 THEN Conv2Row(ptop[1], ptop[2], ptop[3]) ELSE Unset
      pbtm == BtmPad(ptop, halos, g, lr)
      btm == IF lr < g - 1 THEN Conv2Row(pbtm[Hs], pbtm[Hs + 1], pbtm[Hs + 2]) ELSE Unset
  IN  [out2 |-> Merge(ForwardOut2(o1), top, btm, g, lr), padded_out1 |-> pbtm]

\* C11: once a rank's boundary rows are copied into out2, its stage-2 output
\* and its padded buffer are those of the sequential execution on the same
\* inputs and the same memory, however the kernels of the two streams of the
\* ranks were interleaved.
C11_OverlapNonInterference ==
  \A w \in Workers :
    (cfg.G > 1 /\ pc[w] \in {"fwd", "bwd"} /\ Completed(w, "merge")) =>
      \E mem \in Vals :
        /\ out2[w] = SequentialForward(w, mem).out2
        /\ padded_out1[w] = SequentialForward(w, mem).padded_out1

\* C11 witness: a rank with a neighbour above has its boundary rows merged,
\* the halo changing its first output row, while another rank of the group
\* has not finished its exchange stream.
C11_Witness ==
  \E w, v \in Workers :
    /\ cfg.G > 1 /\ local_rank[w] > 0 /\ pc[w] = "fwd" /\ Completed(w, "merge")
    /\ out2[w][1] # ForwardOut2(out1[w])[1]
    /\ pc[v] = "fwd" /\ xpos[v] < Len(xstream[v])

\* C12: when groups != 1, dilation != 1, norm_func is not the default or
\* spatial_group_size > 1 does not divide the world size, the constructor
\* raises on every rank, and then the rank has created no process group and
\* no exchange stream, keeps no communicator and never issues a forward.
C12_ConfigurationErrorsFatal ==
  \A w \in Workers :
    (\/ cfg.groups # 1
     \/ cfg.dilation # 1
     \/ cfg.norm_func # "None"
     \/ cfg.G > 1 /\ WorldSize(cfg) % cfg.G # 0) =>
      /\ error[w] # "none"
      /\ new_groups[w] = 0 /\ communicator[w] = {} /\ ~stream1[w]
      /\ pc[w] = "idle" /\ cstream[w] = <<>> /\ xstream[w] = <<>> /\ ncoll[w] = 0

\* C12 witness: the constructor has failed its divisibility assert on a rank
\* whose other arguments are accepted.
C12_Witness ==
  \E w \in Workers :
    /\ cfg.groups = 1 /\ cfg.dilation = 1 /\ cfg.norm_func = "None"
    /\ cfg.G > 1 /\ cfg.extra > 0
    /\ error[w] = "AssertionError" /\ new_groups[w] = 0

\* Two ranks of the partition group hold slices of different shapes.
ShapeMismatch(grp) == \E a, b \in Members(grp) : Width(a) # Width(b)

\* C13: when the ranks of a partition group enter forward with stage-1
\* outputs of different shapes, no rank of the group enters the all_gather
\* and none receives gathered halos.
C13_ShapeMismatchFailsFast ==
  \A grp \in Groups :
    ShapeMismatch(grp) =>
      \A w \in Members(grp) : ~inflight[w] /\ all_halos[w] = <<>>

Next ==
  \/ \E w \in Workers : StartForward(w)
  \/ \E w \in Workers : ComputeStep(w)
  \/ \E w \in Workers : ExchangeStep(w)
  \/ \E w \in Workers : AllGatherEnter(w)
  \/ AllGatherComplete(DefaultGroup(WorldSize(cfg)))
  \/ \E w \in Workers : Backward(w)

Spec == Init /\ [][Next]_vars

SpecShapes == InitShapes /\ [][Next]_vars

====
